---- MODULE Spec2Model ----
(***************************************************************************)
(* Compile-time type names (nsfx::type_name, src/type-name.hpp).           *)
(*                                                                         *)
(* A character is a one-character string; a C string or character array is *)
(* a sequence of characters.  C++ index i is TLA+ index i + 1.             *)
(* A fixed_string_t<N> is the record                                       *)
(*   [capacity_ |-> N, data_ |-> the N characters of the array,            *)
(*    size_ |-> the logical length].                                       *)
(* std::size_t arithmetic is arithmetic modulo SizeMod.                    *)
(*                                                                         *)
(* dry() and tidy() have two branches: that of __clang__ and __GNUC__,     *)
(* which returns the raw name as it is, and that of _MSC_VER, which scans. *)
(***************************************************************************)
EXTENDS Integers, Sequences, FiniteSets, TLC

(***************************************************************************)
(* Bounds of the model.                                                    *)
(***************************************************************************)
\* A printed type name is made of at most MaxTokens tokens of Tokens.
MaxTokens == 4
\* A sentinel signature of arbitrary shape has at most MaxSigLen characters.
MaxSigLen == 10

(***************************************************************************)
(* std::size_t.                                                            *)
(***************************************************************************)
\* The width of std::size_t in the model: wide enough that only a
\* subtraction below zero wraps, as with the 64 bits of the build.
SizeBits == 16
SizeMod == 2 ^ SizeBits
npos == (0 - 1) % SizeMod
\* The largest object the build accepts (half the address space).
PtrdiffMax == (SizeMod \div 2) - 1

Min(a, b) == IF a < b THEN a ELSE b

(***************************************************************************)
(* Characters.                                                             *)
(***************************************************************************)
NUL == "NUL"
Digits == {"0", "1", "2", "3", "4", "5", "6", "7", "8", "9"}
Upper == {"A", "B", "C", "D", "E", "F", "G", "H", "I", "J", "K", "L", "M",
          "N", "O", "P", "Q", "R", "S", "T", "U", "V", "W", "X", "Y", "Z"}
Lower == {"a", "b", "c", "d", "e", "f", "g", "h", "i", "j", "k", "l", "m",
          "n", "o", "p", "q", "r", "s", "t", "u", "v", "w", "x", "y", "z"}

iskey(c) == c \in Digits \cup Upper \cup Lower \cup {"_"}

(***************************************************************************)
(* fixed_string_t<N>.                                                      *)
(***************************************************************************)
\* fixed_string_t{}: value-initialised, every element zero.
EmptyFixedString(N) ==
    [capacity_ |-> N, data_ |-> [i \in 1..N |-> NUL], size_ |-> 0]

\* fixed_string_t(const char* str, std::size_t len), str = array + off:
\* copies while size_ < len && size_ < N - 1, then writes the terminator.
FixedString(N, str, off, len) ==
    LET n == Min(len, N - 1)
    IN  [capacity_ |-> N,
         data_ |-> [i \in 1..N |-> IF i <= n THEN str[off + i] ELSE NUL],
         size_ |-> n]

\* fixed_string_t(const char (&str)[M]), M = Len(lit) + 1, and
\* to_fixed_string with N = M.
to_fixed_string(lit) ==
    LET N == Len(lit) + 1
        n == Min(Len(lit), N - 1)
    IN  [capacity_ |-> N,
         data_ |-> [i \in 1..N |-> IF i <= n THEN lit[i] ELSE NUL],
         size_ |-> n]

\* view(): the characters of the logical length.
view(s) == SubSeq(s.data_, 1, s.size_)

\* operator[](i)
At(s, i) == s.data_[i + 1]

RECURSIVE rfind_loop(_, _, _)
rfind_loop(s, c, pos) ==
    IF At(s, pos) = c THEN pos
    ELSE IF pos # 0 THEN rfind_loop(s, c, pos - 1)
    ELSE (pos - 1) % SizeMod

\* A faulty variant: while (pos-- > 1) instead of while (pos--), index 0 is never
\* examined.
RECURSIVE rfind_skip0_loop(_, _, _)
rfind_skip0_loop(s, c, pos) ==
    IF At(s, pos) = c THEN pos
    ELSE IF pos > 1 THEN rfind_skip0_loop(s, c, pos - 1)
    ELSE (pos - 1) % SizeMod

rfind_skip0(s, c) ==
    LET pos == (s.size_ - 1) % SizeMod
    IN  IF s.size_ # 0 THEN rfind_skip0_loop(s, c, pos) ELSE pos

\* rfind(c): pos = size_ - 1; if (size_) do { if (data_[pos] == c) break; }
\* while (pos--); return pos.
rfind(s, c) ==
    LET pos == (s.size_ - 1) % SizeMod
    IN  IF s.size_ # 0 THEN rfind_loop(s, c, pos) ELSE pos

(***************************************************************************)
(* The decoration keywords and match().                                    *)
(***************************************************************************)
kw_enum == <<"e", "n", "u", "m">>
kw_class == <<"c", "l", "a", "s", "s">>
kw_struct == <<"s", "t", "r", "u", "c", "t">>
kw_cdecl == <<"_", "_", "c", "d", "e", "c", "l">>
\* In the order dry() and tidy() try them.
Keywords == <<kw_enum, kw_class, kw_struct, kw_cdecl>>

\* while (pos + n < len && n < L) { if (str[pos+n] != sub[n]) break; ++n; }
RECURSIVE match_prefix(_, _, _, _, _)
match_prefix(str, pos, len, sub, n) ==
    IF pos + n < len /\ n < Len(sub)
    THEN IF At(str, pos + n) # sub[n + 1]
         THEN n
         ELSE match_prefix(str, pos, len, sub, n + 1)
    ELSE n

\* match(str, pos, len, sub): the number of characters to remove at pos,
\* 0 when sub does not match there as a delimited word.
match(str, pos, len, sub) ==
    LET L == Len(sub)
        n == match_prefix(str, pos, len, sub, 0)
    IN  IF n # L THEN 0
        ELSE IF pos + L # len
             THEN IF iskey(At(str, pos + L)) THEN 0
                  ELSE IF At(str, pos + L) = " " THEN n + 1
                  ELSE n
             ELSE n

\* The four match() calls at the top of the loop of dry() and of tidy():
\* the result of the first one that is not 0, else 0.
RECURSIVE first_match(_, _, _, _)
first_match(name, pos, len, k) ==
    IF k > Len(Keywords) THEN 0
    ELSE LET n == match(name, pos, len, Keywords[k])
         IN  IF n # 0 THEN n ELSE first_match(name, pos, len, k + 1)

\* while (pos < len && iskey(name[pos])) ++pos, at most room times:
\* the position the loop ends at.
RECURSIVE id_run(_, _, _, _)
id_run(name, pos, len, room) ==
    IF room > 0 /\ pos < len /\ iskey(At(name, pos))
    THEN id_run(name, pos + 1, len, room - 1)
    ELSE pos

\* while (pos < len && !iskey(name[pos])) ++pos, at most room times.
RECURSIVE non_id_run(_, _, _, _)
non_id_run(name, pos, len, room) ==
    IF room > 0 /\ pos < len /\ ~iskey(At(name, pos))
    THEN non_id_run(name, pos + 1, len, room - 1)
    ELSE pos

(***************************************************************************)
(* dry(): the length of the tidy name, in the _MSC_VER branch.             *)
(***************************************************************************)
\* One pass of the while (true) loop of dry(), from the top of the loop:
\* the position and size after it, and whether the loop is left.
dry_pass(name, len, p, sz) ==
    LET n == first_match(name, p, len, 1)
        p1 == id_run(name, p, len, len)
        p2 == non_id_run(name, p1, len, len)
    IN  IF n # 0
        THEN [pos |-> p + n, size |-> sz, brk |-> FALSE]
        ELSE [pos |-> p2, size |-> sz + (p2 - p), brk |-> p2 = len]

RECURSIVE dry_loop(_, _, _, _)
dry_loop(name, len, p, sz) ==
    LET r == dry_pass(name, len, p, sz)
    IN  IF r.brk THEN r ELSE dry_loop(name, len, r.pos, r.size)

\* The condition of the loop that strips trailing spaces.
dry_strips(name, p) == p # 0 /\ At(name, p - 1) = " "

\* while (pos && name[pos - 1] == ' ') { --pos; --size; }  return size;
RECURSIVE dry_strip(_, _, _)
dry_strip(name, p, sz) ==
    IF dry_strips(name, p)
    THEN dry_strip(name, p - 1, (sz - 1) % SizeMod)
    ELSE sz

dry(name) ==
    LET len == name.capacity_ - 1
        r == dry_loop(name, len, 0, 0)
    IN  dry_strip(name, r.pos, r.size)

(***************************************************************************)
(* tidy(): the name without the decoration keywords, in the _MSC_VER       *)
(* branch.                                                                 *)
(***************************************************************************)
\* char data_[N] of fixed_string_t<N> cannot be declared: N is 0 or larger
\* than any object, and the build fails.
ill_formed(N) == N = 0 \/ N > PtrdiffMax

\* dst[dst.size_++] = name[pos++], for the k characters from position p.
copy_run(d, name, p, k) ==
    [d EXCEPT !.data_ = [i \in 1..d.capacity_ |->
                            IF d.size_ < i /\ i <= d.size_ + k
                            THEN At(name, p + (i - d.size_) - 1)
                            ELSE d.data_[i]],
              !.size_ = d.size_ + k]

\* One pass of the while (true) loop of tidy().
tidy_pass(name, len, lim, p, d) ==
    LET n == first_match(name, p, len, 1)
        p1 == id_run(name, p, len, lim - d.size_)
        p2 == non_id_run(name, p1, len, lim - d.size_ - (p1 - p))
        d2 == copy_run(d, name, p, p2 - p)
    IN  IF n # 0
        THEN [pos |-> p + n, dst |-> d, brk |-> FALSE]
        ELSE [pos |-> p2, dst |-> d2, brk |-> d2.size_ = lim \/ p2 = len]

RECURSIVE tidy_loop(_, _, _, _, _)
tidy_loop(name, len, lim, p, d) ==
    LET r == tidy_pass(name, len, lim, p, d)
    IN  IF r.brk THEN r ELSE tidy_loop(name, len, lim, r.pos, r.dst)

\* dst[L] = '\0'
terminate(d, lim) == [d EXCEPT !.data_[lim + 1] = NUL]

\* tidy() of a raw name: the build's outcome, and the tidy name when the
\* build succeeds.
tidy(name) ==
    LET len == name.capacity_ - 1
        lim == dry(name)
        N == (lim + 1) % SizeMod
    IN  IF ill_formed(N)
        THEN [ok |-> FALSE, str |-> EmptyFixedString(0)]
        ELSE [ok |-> TRUE,
              str |-> terminate(
                  tidy_loop(name, len, lim, 0, EmptyFixedString(N)).dst, lim)]

(***************************************************************************)
(* base(): the unqualified name.                                           *)
(***************************************************************************)
Categories == {"value", "const", "volatile", "array", "pointer", "reference",
               "function", "member_pointer"}

\* A faulty variant: std::is_member_pointer_v<T> is missing from the condition.
base_keeps_name_no_member_pointer(c) ==
    c \in {"const", "volatile", "array", "pointer", "reference", "function"}

\* The condition of the if constexpr of base(): T is const, volatile, an
\* array, a pointer, a reference, a function or a member pointer.
base_keeps_name(c) ==
    c \in {"const", "volatile", "array", "pointer", "reference", "function",
           "member_pointer"}

\* A faulty variant: the slice starts at the ':' instead of after it.
base_slice_from_colon(tname, p) ==
    LET N == tname.capacity_ - p
    IN  FixedString(N, tname.data_, p, N)

\* N = name.capacity_ - pos - 1; fixed_string_t<N>{name.data_ + pos + 1, N}
base_slice(tname, p) ==
    LET N == tname.capacity_ - p - 1
    IN  FixedString(N, tname.data_, p + 1, N)

(***************************************************************************)
(* Signature capture: NSFX_FUNCTION inside cls<T>::fn(), T printed as t.   *)
(***************************************************************************)
Compilers == {"gcc", "clang", "msvc"}

\* #if defined(__clang__) || defined(__GNUC__) of dry() and tidy().
is_gnu(c) == c \in {"gcc", "clang"}

str_int == <<"i", "n", "t">>
str_void == <<"v", "o", "i", "d">>
str_full == <<"f", "u", "l", "l">>
str_impl == <<"i", "m", "p", "l">>
str_get == <<"g", "e", "t">>
str_raw == <<"r", "a", "w">>
gcc_head ==
    <<"s", "t", "a", "t", "i", "c", " ", "c", "o", "n", "s", "t", "e",
    "x", "p", "r", " ", "a", "u", "t", "o", " ", "n", "s", "f", "x",
    ":", ":", "d", "e", "t", "a", "i", "l", "s", ":", ":", "t", "y",
    "p", "e", "_", "n", "a", "m", "e", ":", ":">>
gcc_mid ==
    <<"<", "T", ">", ":", ":">>
gcc_with ==
    <<"(", ")", " ", "[", "w", "i", "t", "h", " ", "T", " ", "=", " ">>
clang_head ==
    <<"s", "t", "a", "t", "i", "c", " ", "a", "u", "t", "o", " ", "n",
    "s", "f", "x", ":", ":", "d", "e", "t", "a", "i", "l", "s", ":",
    ":", "t", "y", "p", "e", "_", "n", "a", "m", "e", ":", ":">>
clang_with ==
    <<"(", ")", " ", "[", "T", " ", "=", " ">>
msvc_head ==
    <<"a", "u", "t", "o", " ", "_", "_", "c", "d", "e", "c", "l", " ",
    "n", "s", "f", "x", ":", ":", "d", "e", "t", "a", "i", "l", "s",
    ":", ":", "t", "y", "p", "e", "_", "n", "a", "m", "e", ":", ":">>
msvc_tail ==
    <<"(", "v", "o", "i", "d", ")">>

\* The signature the compiler prints, as the comments of full<T>::get()
\* give it for the three compilers.
Signature(compiler, cls, fn, t) ==
    CASE compiler = "gcc" ->
            gcc_head \o cls \o gcc_mid \o fn \o gcc_with \o t \o <<"]">>
      [] compiler = "clang" ->
            clang_head \o cls \o <<"<">> \o t \o <<">", ":", ":">> \o fn
                \o clang_with \o t \o <<"]">>
      [] compiler = "msvc" ->
            msvc_head \o cls \o <<"<">> \o t \o <<">", ":", ":">> \o fn
                \o msvc_tail

\* std::string_view::find(const char*): the first index at which sub
\* occurs, npos when it does not occur.
sv_find(s, sub) ==
    LET hits == {i \in 0..(Len(s) - Len(sub)) :
                    SubSeq(s, i + 1, i + Len(sub)) = sub}
    IN  IF hits = {} THEN npos
        ELSE CHOOSE i \in hits : \A j \in hits : i <= j

(***************************************************************************)
(* Offset calibration and raw().                                           *)
(***************************************************************************)
\* full<void>::get().size() - full<int>::get().size()
calc_num_appearance(l_void, l_int) == (l_void - l_int) % SizeMod

\* A faulty variant: the length of "int" is subtracted instead of that of "void".
calc_num_misc_chars_3(l_void, app) == (l_void - 3 * app) % SizeMod

\* full<void>::get().size() - 4 * num_appearance
calc_num_misc_chars(l_void, app) == (l_void - 4 * app) % SizeMod

\* A faulty variant: the name is taken to be printed once.
raw_length_once(N, misc, app) == (N - 1 - misc) % SizeMod

\* L = (N - 1 - num_misc_chars) / num_appearance
raw_length(N, misc, app) == ((N - 1 - misc) % SizeMod) \div app

\* raw(): full = to_fixed_string(NSFX_FUNCTION);
\* fixed_string_t<L+1>{full.data_ + name_start_pos, L}.
raw(f, start, misc, app) ==
    LET len == raw_length(f.capacity_, misc, app)
    IN  FixedString(len + 1, f.data_, start, len)

(***************************************************************************)
(* The state.                                                              *)
(***************************************************************************)
VARIABLES
    pc,             \* the step the build is at
    compiler,       \* the compiler family
    sig_int,        \* full<int>::get()
    sig_void,       \* full<void>::get()
    name_start_pos, \* the three calibration constants
    num_appearance,
    num_misc_chars,
    printed,        \* the name of T as the compiler prints it
    full,           \* the local full of raw()
    name,           \* the raw name: the result of raw(), the local of dry()
                    \* and tidy()
    pos,            \* the locals pos and size of dry(), pos of tidy()
    size,
    L,              \* the result of dry(), the constant L of tidy()
    dst,            \* the local dst of tidy(), then its result
    cat,            \* the type category of T, "" until base() reads it
    rpos,           \* the constant pos of base(): the result of rfind(':')
    base            \* the result of base()

vars == <<pc, compiler, sig_int, sig_void, name_start_pos, num_appearance,
          num_misc_chars, printed, full, name, pos, size, L, dst, cat, rpos,
          base>>

(***************************************************************************)
(* The printed names the model draws: at most MaxTokens of these tokens,   *)
(* the four keywords, an identifier character that also starts a keyword,  *)
(* a space, and a character that is neither.                               *)
(***************************************************************************)
Tokens == {kw_enum, kw_class, kw_struct, kw_cdecl, <<"s">>, <<" ">>, <<":">>}

RECURSIVE NamesUpTo(_)
NamesUpTo(k) ==
    IF k = 0 THEN {<<>>}
    ELSE LET shorter == NamesUpTo(k - 1)
         IN  shorter \cup {n \o t : n \in shorter, t \in Tokens}

Names == NamesUpTo(MaxTokens)

\* A sentinel signature of a user-defined NSFX_FUNCTION: any length.
Filler(n) == [i \in 1..n |-> "x"]

NoString == EmptyFixedString(1)

(***************************************************************************)
(* Offset calibration and raw(), for a type T printed as printed.          *)
(***************************************************************************)
ScanIdle ==
    /\ pos = 0
    /\ size = 0
    /\ L = 0
    /\ dst = NoString
    /\ cat = ""
    /\ rpos = 0
    /\ base = NoString

InitSig ==
    /\ pc = "calibrate"
    /\ compiler \in Compilers
    /\ printed \in Names
    /\ sig_int = Signature(compiler, str_full, str_get, str_int)
    /\ sig_void = Signature(compiler, str_full, str_get, str_void)
    /\ name_start_pos = 0
    /\ num_appearance = 0
    /\ num_misc_chars = 0
    /\ full = NoString
    /\ name = NoString
    /\ ScanIdle

\* Sentinel signatures of any two lengths.
InitCal ==
    /\ pc = "calibrate"
    /\ compiler = ""
    /\ printed = <<>>
    /\ \E a \in 0..MaxSigLen, b \in 0..MaxSigLen :
          /\ sig_int = Filler(a)
          /\ sig_void = Filler(b)
    /\ name_start_pos = 0
    /\ num_appearance = 0
    /\ num_misc_chars = 0
    /\ full = NoString
    /\ name = NoString
    /\ ScanIdle

\* The initialisers of name_start_pos, num_appearance and num_misc_chars.
Calibrate ==
    /\ pc = "calibrate"
    /\ name_start_pos' = sv_find(sig_int, str_int)
    /\ num_appearance' = calc_num_appearance(Len(sig_void), Len(sig_int))
    /\ num_misc_chars' =
          calc_num_misc_chars(Len(sig_void),
                              calc_num_appearance(Len(sig_void), Len(sig_int)))
    /\ pc' = "raw"
    /\ UNCHANGED <<compiler, sig_int, sig_void, printed, full, name, pos,
                   size, L, dst, cat, rpos, base>>

\* impl<T>::raw().  A division by zero is no constant expression.
Raw ==
    /\ pc = "raw"
    /\ num_appearance # 0
    /\ LET f == to_fixed_string(Signature(compiler, str_impl, str_raw, printed))
       IN  /\ full' = f
           /\ name' = raw(f, name_start_pos, num_misc_chars, num_appearance)
    /\ pc' = "named"
    /\ UNCHANGED <<compiler, sig_int, sig_void, name_start_pos, num_appearance,
                   num_misc_chars, printed, pos, size, L, dst, cat, rpos, base>>

NextCal == Calibrate

SpecCal == InitCal /\ [][NextCal]_vars

NextSig == Calibrate \/ Raw

SpecSig == InitSig /\ [][NextSig]_vars

(***************************************************************************)
(* dry(), tidy() and base() of a raw name.                                 *)
(***************************************************************************)
Init ==
    /\ pc = "dry"
    /\ compiler \in Compilers
    /\ sig_int = <<>>
    /\ sig_void = <<>>
    /\ name_start_pos = 0
    /\ num_appearance = 0
    /\ num_misc_chars = 0
    /\ full = NoString
    /\ printed \in Names
    /\ name = FixedString(Len(printed) + 1, printed, 0, Len(printed))
    /\ ScanIdle

len == name.capacity_ - 1

Calibration == <<compiler, sig_int, sig_void, name_start_pos, num_appearance,
                 num_misc_chars, printed, full, name>>

\* dry(), __clang__ or __GNUC__: return name.capacity_.
DryGnu ==
    /\ pc = "dry"
    /\ is_gnu(compiler)
    /\ L' = name.capacity_
    /\ pc' = "alloc"
    /\ UNCHANGED <<pos, size, dst, cat, rpos, base, Calibration>>

\* tidy(), __clang__ or __GNUC__: return name.
TidyGnu ==
    /\ pc = "alloc"
    /\ is_gnu(compiler)
    /\ dst' = name
    /\ pc' = "base"
    /\ UNCHANGED <<pos, size, L, cat, rpos, base, Calibration>>

\* dry(): a keyword matches at pos: pos += n; continue.
DryRemove ==
    /\ pc = "dry"
    /\ ~is_gnu(compiler)
    /\ first_match(name, pos, len, 1) # 0
    /\ pos' = dry_pass(name, len, pos, size).pos
    /\ UNCHANGED <<pc, size, L, dst, cat, rpos, base, Calibration>>

\* dry(): no keyword matches at pos: the two counting loops, and the break.
DryCopy ==
    /\ pc = "dry"
    /\ ~is_gnu(compiler)
    /\ first_match(name, pos, len, 1) = 0
    /\ LET r == dry_pass(name, len, pos, size)
       IN  /\ pos' = r.pos
           /\ size' = r.size
           /\ pc' = IF r.brk THEN "strip" ELSE "dry"
    /\ UNCHANGED <<L, dst, cat, rpos, base, Calibration>>

\* dry(): one pass of the loop that strips trailing spaces.
DryStrip ==
    /\ pc = "strip"
    /\ dry_strips(name, pos)
    /\ pos' = pos - 1
    /\ size' = (size - 1) % SizeMod
    /\ UNCHANGED <<pc, L, dst, cat, rpos, base, Calibration>>

\* dry(): return size, into the constant L of tidy().
DryReturn ==
    /\ pc = "strip"
    /\ ~dry_strips(name, pos)
    /\ L' = size
    /\ pc' = "alloc"
    /\ UNCHANGED <<pos, size, dst, cat, rpos, base, Calibration>>

\* tidy(): fixed_string_t<L+1> dst {}; pos = 0.
TidyAlloc ==
    /\ pc = "alloc"
    /\ ~is_gnu(compiler)
    /\ ~ill_formed((L + 1) % SizeMod)
    /\ dst' = EmptyFixedString((L + 1) % SizeMod)
    /\ pos' = 0
    /\ pc' = "tidy"
    /\ UNCHANGED <<size, L, cat, rpos, base, Calibration>>

\* tidy(): fixed_string_t<L+1> has no valid array: the build fails.
TidyIllFormed ==
    /\ pc = "alloc"
    /\ ~is_gnu(compiler)
    /\ ill_formed((L + 1) % SizeMod)
    /\ pc' = "ill_formed"
    /\ UNCHANGED <<pos, size, L, dst, cat, rpos, base, Calibration>>

\* tidy(): a keyword matches at pos: pos += n; continue.
TidyRemove ==
    /\ pc = "tidy"
    /\ first_match(name, pos, len, 1) # 0
    /\ pos' = tidy_pass(name, len, L, pos, dst).pos
    /\ UNCHANGED <<pc, size, L, dst, cat, rpos, base, Calibration>>

\* tidy(): no keyword matches at pos: the two copying loops, and the break.
TidyCopy ==
    /\ pc = "tidy"
    /\ first_match(name, pos, len, 1) = 0
    /\ LET r == tidy_pass(name, len, L, pos, dst)
       IN  /\ pos' = r.pos
           /\ dst' = r.dst
           /\ pc' = IF r.brk THEN "terminate" ELSE "tidy"
    /\ UNCHANGED <<size, L, cat, rpos, base, Calibration>>

\* tidy(): dst[L] = '\0'; return dst.
TidyReturn ==
    /\ pc = "terminate"
    /\ dst' = terminate(dst, L)
    /\ pc' = "base"
    /\ UNCHANGED <<pos, size, L, cat, rpos, base, Calibration>>

\* base() of a type that is const, volatile, an array, a pointer, a
\* reference, a function or a member pointer: return tidy().
BaseKeep ==
    /\ pc = "base"
    /\ \E c \in Categories :
          /\ base_keeps_name(c)
          /\ cat' = c
    /\ base' = dst
    /\ pc' = "done"
    /\ UNCHANGED <<pos, size, L, dst, rpos, Calibration>>

\* base() of any other type: pos = name.rfind(':').
BaseFind ==
    /\ pc = "base"
    /\ \E c \in Categories :
          /\ ~base_keeps_name(c)
          /\ cat' = c
    /\ rpos' = rfind(dst, ":")
    /\ pc' = "slice"
    /\ UNCHANGED <<pos, size, L, dst, base, Calibration>>

\* base(): pos == npos: return name.
BaseWhole ==
    /\ pc = "slice"
    /\ rpos = npos
    /\ base' = dst
    /\ pc' = "done"
    /\ UNCHANGED <<pos, size, L, dst, cat, rpos, Calibration>>

\* base(): the characters after the last ':'.
BaseSlice ==
    /\ pc = "slice"
    /\ rpos # npos
    /\ base' = base_slice(dst, rpos)
    /\ pc' = "done"
    /\ UNCHANGED <<pos, size, L, dst, cat, rpos, Calibration>>

Next ==
    \/ DryGnu
    \/ TidyGnu
    \/ DryRemove
    \/ DryCopy
    \/ DryStrip
    \/ DryReturn
    \/ TidyAlloc
    \/ TidyIllFormed
    \/ TidyRemove
    \/ TidyCopy
    \/ TidyReturn
    \/ BaseKeep
    \/ BaseFind
    \/ BaseWhole
    \/ BaseSlice

Spec == Init /\ [][Next]_vars

(***************************************************************************)
(* Properties.                                                             *)
(***************************************************************************)
\* The states in which tidy() has returned: dst is name(T).
Tidied == pc \in {"base", "slice", "done"}

\* The states in which the scan of tidy() has returned.
Scanned == Tidied /\ ~is_gnu(compiler)

\* kw occurs in the string s at index i (from 0) as a whole word.
WholeWordAt(s, i, kw) ==
    /\ i + Len(kw) <= Len(s)
    /\ SubSeq(s, i + 1, i + Len(kw)) = kw
    /\ (i = 0 \/ ~iskey(s[i]))
    /\ (i + Len(kw) = Len(s) \/ ~iskey(s[i + Len(kw) + 1]))

\* The whole-word occurrences of the keywords in s.
WholeWords(s) ==
    {w \in (0..Len(s)) \X (1..Len(Keywords)) :
        WholeWordAt(s, w[1], Keywords[w[2]])}

\* The index (from 1) i of s lies inside a whole-word keyword.
InWholeWord(s, i) ==
    \E w \in WholeWords(s) :
        w[1] < i /\ i <= w[1] + Len(Keywords[w[2]])

RECURSIVE Essential(_, _)
\* The characters of s from index k on that are neither a space nor part
\* of a whole-word keyword.
Essential(s, k) ==
    IF k > Len(s) THEN <<>>
    ELSE (IF s[k] # " " /\ ~InWholeWord(s, k) THEN <<s[k]>> ELSE <<>>)
             \o Essential(s, k + 1)

RECURSIVE IsSubsequence(_, _)
\* a can be obtained from b by deleting characters.
IsSubsequence(a, b) ==
    IF a = <<>> THEN TRUE
    ELSE IF b = <<>> THEN FALSE
    ELSE IF Head(a) = Head(b) THEN IsSubsequence(Tail(a), Tail(b))
    ELSE IsSubsequence(a, Tail(b))

\* The index of the last c among the size_ characters of s, else npos.
LastIndex(s, c) ==
    LET hits == {i \in 0..(s.size_ - 1) : At(s, i) = c}
    IN  IF hits = {} THEN npos
        ELSE CHOOSE i \in hits : \A j \in hits : j <= i

\* C1: for a signature of the calibration shape, raw() is the printed name
\* of T: its length is (L_T - num_misc_chars) / num_appearance, its
\* characters are those of the signature from name_start_pos on, and it is
\* terminated at its length, so it is empty only when the printed name is.
C1_RawIsPrintedName ==
    pc = "named" =>
        /\ name.size_ = (full.size_ - num_misc_chars) \div num_appearance
        /\ \A i \in 0..(name.size_ - 1) :
              At(name, i) = At(full, name_start_pos + i)
        /\ view(name) = printed
        /\ name.capacity_ = name.size_ + 1
        /\ At(name, name.size_) = NUL
        /\ (printed # <<>> => name.size_ > 0)

\* A name that holds a keyword was sliced out of a signature that prints it
\* twice.
C1_Witness ==
    /\ pc = "named"
    /\ num_appearance = 2
    /\ printed = kw_struct \o <<" ", "s", ":">>
    /\ view(name) = printed

\* C2: name(T) holds no whole-word occurrence of enum, class, struct or
\* __cdecl, however many of them the raw name holds.
C2_NoWholeWordKeyword ==
    Tidied => WholeWords(view(dst)) = {}

\* C3: every character of the raw name that is neither a space nor part of
\* a whole-word keyword is in the name(T) the scan produces, in the original
\* order.
C3_OnlyKeywordsAndSpacesRemoved ==
    Scanned =>
        IsSubsequence(Essential(printed, 1), view(dst))

\* C4: the name(T) the scan produces does not end with a space.
C4_NoTrailingSpace ==
    Scanned => (dst.size_ = 0 \/ At(dst, dst.size_ - 1) # " ")

\* C5: the scan is idempotent: the scan of the name(T) it produced is that
\* name(T).
C5_Idempotent ==
    Scanned => (tidy(dst).ok /\ view(tidy(dst).str) = view(dst))

\* C6: for a type that is not const, volatile, an array, a pointer, a
\* reference, a function or a member pointer, base(T) is name(T) when
\* name(T) has no ':', else the characters after its last ':', terminated,
\* of length len(name) - pos - 1; base(T) has no ':'.
C6_BaseOfValueType ==
    (pc = "done" /\ cat = "value") =>
        LET v == view(dst)
            colons == {i \in 1..Len(v) : v[i] = ":"}
            last == CHOOSE i \in colons : \A j \in colons : j <= i
        IN  /\ IF colons = {}
               THEN base = dst
               ELSE /\ view(base) = SubSeq(v, last + 1, Len(v))
                    /\ base.size_ = Len(v) - (last - 1) - 1
                    /\ At(base, base.size_) = NUL
            /\ \A i \in 1..base.size_ : base.data_[i] # ":"

\* The scope of a value type was stripped.
C6_Witness ==
    /\ pc = "done"
    /\ cat = "value"
    /\ view(dst) = <<"s", ":", ":", "s">>
    /\ view(base) = <<"s">>

\* C7: for a type that is const, volatile, an array, a pointer, a
\* reference, a function or a member pointer, base(T) is name(T).
C7_BaseOfQualifiedType ==
    (pc = "done" /\ cat \in {"const", "volatile", "array", "pointer",
                             "reference", "function", "member_pointer"}) =>
        base = dst

\* The name of a member pointer keeps its scope.
C7_Witness ==
    /\ pc = "done"
    /\ cat = "member_pointer"
    /\ view(base) = <<"s", ":", ":", "s">>

\* C8: the calibration constants reconstruct both sentinel lengths, in
\* std::size_t arithmetic.
C8_CalibrationConsistent ==
    pc # "calibrate" =>
        /\ (num_misc_chars + 3 * num_appearance) % SizeMod = Len(sig_int)
        /\ (num_misc_chars + 4 * num_appearance) % SizeMod = Len(sig_void)

\* The subtraction wrapped.
C8_Witness ==
    /\ pc # "calibrate"
    /\ Len(sig_void) < Len(sig_int)
    /\ num_appearance > Len(sig_int)

\* C9: rfind(c) is the index of the last c within the logical length, and
\* npos when there is none: for the ':' base() looks for, and for every
\* character, in the raw name and in name(T).
C9_RfindIsLastIndex ==
    /\ pc = "slice" => rpos = LastIndex(dst, ":")
    /\ pc \in {"dry", "slice"} =>
          \A c \in {"s", "t", "m", "_", " ", ":", NUL} :
              /\ rfind(name, c) = LastIndex(name, c)
              /\ rfind(dst, c) = LastIndex(dst, c)

\* Index 0 was examined last and did not match.
C9_Witness ==
    /\ pc = "slice"
    /\ dst.size_ > 1
    /\ At(dst, 0) # ":"
    /\ rpos = npos

\* C10: wherever dry() and tidy() call match(), pos is 0 or the character
\* at pos - 1 is no identifier character.
C10_MatchPrecondition ==
    pc \in {"dry", "tidy"} => (pos = 0 \/ ~iskey(At(name, pos - 1)))

\* C11: the size dry() counts never goes below 0 in the loop that strips
\* trailing spaces, and the length the scan of dry() returns is at most the
\* length of the raw name: 0 <= dry() <= len.
C11_DryWithinInput ==
    ~is_gnu(compiler) =>
        /\ pc = "strip" => (0 <= size /\ size <= len)
        /\ pc \in {"alloc", "ill_formed"} => (0 <= L /\ L <= len)

====
